---------------------------- MODULE Spec2Model ----------------------------
(***************************************************************************)
(* Model of the embedder package: the provider registry (Factory), the     *)
(* Ollama backend (construction protocol, Embed, BatchEmbed, accessors,    *)
(* Health) and the single-item primitive they are built on.                *)
(*                                                                         *)
(* Every public operation is one action.  What the network answers to a    *)
(* request is an input of the action: a health probe gets an outcome, an   *)
(* embedding request gets a response, and a text handed to Embed or        *)
(* BatchEmbed carries the response the backend gives for it.  Each action  *)
(* records the call in `op` and what it returned and did in `out`.         *)
(***************************************************************************)
EXTENDS Integers, Sequences, FiniteSets, TLC

\* ------------------------------------------------------------------ bounds
\* longest text sequence handed to Embed / BatchEmbed
MaxLen == 3
\* largest batchSize handed to BatchEmbed (the smallest is -1)
MaxBatch == 2
\* longest vector the backend answers the dimension probe with
MaxDim == 2
\* goroutines calling the registry at the same time, one call each
NumThreads == 2

VARIABLES
    providers,  \* Factory.providers: registered name -> constructor
    firstReg,   \* history: name -> constructor of its first successful registration
    builder,    \* the EmbedderBuilder the caller holds (NoBuilder before New)
    emb,        \* the OllamaEmbedder instance the caller holds (NoEmbedder before construction)
    built,      \* history: what that instance reported right after construction
    op,         \* the last operation called and its arguments
    out,        \* what it returned, and the calls it made
    heap,       \* the option maps: address -> map (a Config holds the address)
    mu,         \* Factory.mu: the holders of the read/write lock and who waits for it
    threads,    \* the goroutines calling the registry: each one's call stack and results
    run         \* a BatchEmbed in progress under a context: its locals and the context's state

vars == <<providers, firstReg, builder, emb, built, op, out, heap, mu, threads, run>>

\* ------------------------------------------------------------------ values
NoErr == [kind |-> "nil"]
NoEmbedder == [type |-> "nil"]
NoBuilder == [type |-> "nil"]

\* a value of the interface type Embedder: its dynamic type and the pointer it
\* holds.  The nil interface has no dynamic type; an interface made from a nil
\* *OllamaEmbedder has the type and no instance behind it.
Iface(dyn, ptr) == [dyn |-> dyn, ptr |-> ptr]
NilIface == Iface("nil", NoEmbedder)

Range(seq) == {seq[i] : i \in DOMAIN seq}

\* a Go slice: the nil slice and the empty non-nil slice both have no elements
NilSlice == [isNil |-> TRUE, elems |-> <<>>]
EmptySlice == [isNil |-> FALSE, elems |-> <<>>]
\* a bug: the new result goes in front
SliceAppendFront(s, x) == [isNil |-> FALSE, elems |-> <<x>> \o s.elems]
SliceAppend(s, x) == [isNil |-> FALSE, elems |-> s.elems \o <<x>>]
\* a bug: the chunk's results replace the results so far
SliceAppendAllReplace(s, t) == t
SliceAppendAll(s, t) ==
    IF Len(t.elems) = 0 THEN s ELSE [isNil |-> FALSE, elems |-> s.elems \o t.elems]

\* a URL is a sequence of tokens; "/" is the one-character token
Host == "http://localhost:11434"
URLs == {<<Host>>, <<Host, "/">>}
Models == {"qwen2.5:7b", "test-model"}

DefaultConfig ==
    [Provider |-> "ollama",
     BaseURL  |-> <<Host>>,
     Model    |-> "qwen2.5:7b",
     Timeout  |-> 30,
     Options  |-> "defaultOptions"]

\* ------------------------------------------------------------ the network
\* outcome of GET /api/version
HealthOutcomes == {"ok", "neterr", "badstatus"}

\* response to POST /api/embeddings: a transport error, a status >= 400, or
\* a body with a vector of float64
RespFail == {[kind |-> "neterr", embedding |-> <<>>],
             [kind |-> "http", embedding |-> <<>>]}
RespOk(v) == [kind |-> "ok", embedding |-> v]
ProbeVec(d) == [i \in 1..d |-> 2 * i + 1]
ProbeResponses == RespFail \cup {RespOk(ProbeVec(d)) : d \in 1..MaxDim}

\* a text together with the response the backend gives for it
Items ==
    {[text |-> "a", resp |-> RespOk(<<1, 4>>)],
     [text |-> "b", resp |-> RespOk(<<6, 3>>)],
     [text |-> "b", resp |-> [kind |-> "neterr", embedding |-> <<>>]]}
ItemSeqs == UNION {[1..n -> Items] : n \in 0..MaxLen}
BatchSizes == (-1)..MaxBatch

\* float32(val): the narrowing keeps the value up to the precision lost
Float32(x) == 2 * (x \div 2)

\* one entry of the log of requests sent
Call(path, e, prompt, resp) ==
    [resp |-> resp, path |-> path, prompt |-> prompt,
     base |-> e.baseURL, model |-> e.model]

\* ------------------------------------------------------------ ollama.go
TrimSuffix(s) ==
    IF Len(s) > 0 /\ s[Len(s)] = "/" THEN SubSeq(s, 1, Len(s) - 1) ELSE s

\* makeRequest: the decoded response, or the error
makeRequest(e, prompt, resp) ==
    [err   |-> IF resp.kind = "neterr" THEN [kind |-> "transport"]
               ELSE IF resp.kind = "http" THEN [kind |-> "HTTP status"]
               ELSE NoErr,
     data  |-> IF resp.kind = "ok" THEN resp.embedding ELSE <<>>,
     calls |-> <<Call("/api/embeddings", e, prompt, resp)>>]

\* embedSingle: the single-item primitive
embedSingle(e, text, resp) ==
    LET r == makeRequest(e, text, resp) IN
    IF r.err # NoErr
    THEN [err |-> [kind |-> "failed to embed text", cause |-> r.err],
          calls |-> r.calls,
          val |-> <<>>]
    ELSE [err |-> NoErr,
          calls |-> r.calls,
          val |-> [i \in 1..Len(r.data) |-> Float32(r.data[i])]]

\* a bug: a failed health check drops the cached dimension
HealthInvalidate(e, h) ==
    [err   |-> IF h = "neterr" THEN [kind |-> "transport"]
               ELSE IF h = "badstatus" THEN [kind |-> "ollama health check failed"]
               ELSE NoErr,
     calls |-> <<Call("/api/version", e, "", [kind |-> h, embedding |-> <<>>])>>,
     recv  |-> IF h = "ok" THEN e ELSE [e EXCEPT !.dimension = 0]]

\* Health: the receiver after the call, and the error
Health(e, h) ==
    [err   |-> IF h = "neterr" THEN [kind |-> "transport"]
               ELSE IF h = "badstatus" THEN [kind |-> "ollama health check failed"]
               ELSE NoErr,
     calls |-> <<Call("/api/version", e, "", [kind |-> h, embedding |-> <<>>])>>,
     recv  |-> e]

\* a bug: the probe is sent and its length is not stored
detectDimensionNoStore(e, resp) ==
    LET r == embedSingle(e, "test", resp) IN
    [err |-> r.err, calls |-> r.calls, recv |-> e]

\* detectDimension: one embedSingle of "test"; the length is cached
detectDimension(e, resp) ==
    LET r == embedSingle(e, "test", resp) IN
    IF r.err # NoErr
    THEN [err |-> r.err, calls |-> r.calls, recv |-> e]
    ELSE [err |-> NoErr, calls |-> r.calls, recv |-> [e EXCEPT !.dimension = Len(r.val)]]

\* a bug: the half-built instance is returned beside the error
NewOllamaEmbedderPartial(config, h, resp) ==
    LET e0 == [type      |-> "ollama",
               baseURL   |-> TrimSuffix(config.BaseURL),
               model     |-> config.Model,
               dimension |-> 0,
               timeout   |-> config.Timeout]
        hr == Health(e0, h)
        dr == detectDimension(hr.recv, resp)
    IN  IF hr.err # NoErr
        THEN [err |-> [kind |-> "failed to connect to Ollama", cause |-> hr.err],
              calls |-> hr.calls,
              val |-> hr.recv]
        ELSE IF dr.err # NoErr
        THEN [err |-> [kind |-> "failed to detect embedding dimension", cause |-> dr.err],
              calls |-> hr.calls \o dr.calls,
              val |-> dr.recv]
        ELSE [err |-> NoErr, calls |-> hr.calls \o dr.calls, val |-> dr.recv]

\* NewOllamaEmbedder(config): the instance returned (NoEmbedder for nil), the error
NewOllamaEmbedder(config, h, resp) ==
    LET e0 == [type      |-> "ollama",
               baseURL   |-> TrimSuffix(config.BaseURL),
               model     |-> config.Model,
               dimension |-> 0,
               timeout   |-> config.Timeout]
        hr == Health(e0, h)
        dr == detectDimension(hr.recv, resp)
    IN  IF hr.err # NoErr
        THEN [err |-> [kind |-> "failed to connect to Ollama", cause |-> hr.err],
              calls |-> hr.calls,
              val |-> NoEmbedder]
        ELSE IF dr.err # NoErr
        THEN [err |-> [kind |-> "failed to detect embedding dimension", cause |-> dr.err],
              calls |-> hr.calls \o dr.calls,
              val |-> NoEmbedder]
        ELSE [err |-> NoErr, calls |-> hr.calls \o dr.calls, val |-> dr.recv]

\* a bug: a failing item is skipped and the loop goes on
RECURSIVE EmbedLoopContinue(_, _, _, _, _)
EmbedLoopContinue(e, texts, i, allEmbeddings, calls) ==
    IF i > Len(texts)
    THEN [err |-> NoErr, calls |-> calls, val |-> allEmbeddings, recv |-> e]
    ELSE LET r == embedSingle(e, texts[i].text, texts[i].resp) IN
         IF r.err # NoErr
         THEN EmbedLoopContinue(e, texts, i + 1, allEmbeddings, calls \o r.calls)
         ELSE EmbedLoopContinue(e, texts, i + 1, SliceAppend(allEmbeddings, r.val),
                                calls \o r.calls)

\* the loop of Embed from position i (1-based) with the results so far
RECURSIVE EmbedLoop(_, _, _, _, _)
EmbedLoop(e, texts, i, allEmbeddings, calls) ==
    IF i > Len(texts)
    THEN [err |-> NoErr, calls |-> calls, val |-> allEmbeddings, recv |-> e]
    ELSE LET r == embedSingle(e, texts[i].text, texts[i].resp) IN
         IF r.err # NoErr
         THEN [err |-> [kind |-> "failed to embed text at index", cause |-> r.err,
                        index |-> i - 1],
               calls |-> calls \o r.calls,
               val |-> NilSlice,
               recv |-> e]
         ELSE EmbedLoop(e, texts, i + 1, SliceAppend(allEmbeddings, r.val),
                        calls \o r.calls)

\* a bug: an empty input is refused
EmbedRejectEmpty(e, texts) ==
    IF Len(texts) = 0
    THEN [err |-> [kind |-> "no texts"], calls |-> <<>>, val |-> NilSlice, recv |-> e]
    ELSE EmbedLoop(e, texts, 1, NilSlice, <<>>)

Embed(e, texts) ==
    IF Len(texts) = 0
    THEN [err |-> NoErr, calls |-> <<>>, val |-> EmptySlice, recv |-> e]
    ELSE EmbedLoop(e, texts, 1, NilSlice, <<>>)

\* EmbedSingle: the primitive, directly
EmbedSingle(e, text, resp) ==
    LET r == embedSingle(e, text, resp) IN
    [err |-> r.err, calls |-> r.calls,
     val |-> IF r.err = NoErr THEN [isNil |-> FALSE, elems |-> r.val] ELSE NilSlice,
     recv |-> e]

Min(a, b) == IF a < b THEN a ELSE b

\* a bug: a chunk that fails is left out and the next chunk is embedded
RECURSIVE BatchLoopContinue(_, _, _, _, _, _, _)
BatchLoopContinue(e, texts, batchSize, i, allEmbeddings, calls, chunks) ==
    IF i >= Len(texts) \/ batchSize <= 0
    THEN [err |-> NoErr, calls |-> calls, val |-> allEmbeddings, recv |-> e,
          chunks |-> chunks, status |-> "returned"]
    ELSE LET end   == Min(i + batchSize, Len(texts))
             batch == SubSeq(texts, i + 1, end)
             r     == Embed(e, batch)
         IN  BatchLoopContinue(r.recv, texts, batchSize, i + batchSize,
                               IF r.err # NoErr THEN allEmbeddings
                               ELSE SliceAppendAll(allEmbeddings, r.val),
                               calls \o r.calls, Append(chunks, batch))

\* the loop of BatchEmbed from offset i (0-based); chunks logs each Embed call.
\* A step of 0 never advances i; a negative step slices texts[i:end] with end < i.
RECURSIVE BatchLoop(_, _, _, _, _, _, _)
BatchLoop(e, texts, batchSize, i, allEmbeddings, calls, chunks) ==
    IF i >= Len(texts)
    THEN [err |-> NoErr, calls |-> calls, val |-> allEmbeddings, recv |-> e,
          chunks |-> chunks, status |-> "returned"]
    ELSE IF batchSize = 0
    THEN [err |-> NoErr, calls |-> calls, val |-> NilSlice, recv |-> e,
          chunks |-> chunks, status |-> "hang"]
    ELSE IF batchSize < 0
    THEN [err |-> NoErr, calls |-> calls, val |-> NilSlice, recv |-> e,
          chunks |-> chunks, status |-> "panic"]
    ELSE LET end   == Min(i + batchSize, Len(texts))
             batch == SubSeq(texts, i + 1, end)
             r     == Embed(e, batch)
         IN  IF r.err # NoErr
             THEN [err |-> r.err, calls |-> calls \o r.calls, val |-> NilSlice, recv |-> r.recv,
                   chunks |-> Append(chunks, batch), status |-> "returned"]
             ELSE BatchLoop(r.recv, texts, batchSize, i + batchSize,
                            SliceAppendAll(allEmbeddings, r.val), calls \o r.calls,
                            Append(chunks, batch))

\* a bug: only a negative batchSize is replaced by the length
BatchEmbedNegativeOnly(e, texts, batchSize) ==
    LET bs == IF batchSize < 0 THEN Len(texts) ELSE batchSize IN
    BatchLoop(e, texts, bs, 0, NilSlice, <<>>, <<>>)

BatchEmbed(e, texts, batchSize) ==
    LET bs == IF batchSize <= 0 THEN Len(texts) ELSE batchSize IN
    BatchLoop(e, texts, bs, 0, NilSlice, <<>>, <<>>)

GetDimension(e) == e.dimension
GetModel(e) == e.model

\* ------------------------------------------------------------ factory.go
\* the constructors a caller can register: the closure NewFactory registers,
\* and two constructors of the caller's own
OllamaProvider == "NewOllamaEmbedder"
CustomProviders == {"c1", "c2"}
\* the names registered, and the names looked up
ProviderNames == {"ollama", "mock"}
LookupNames == ProviderNames \cup {"nonexistent"}

NoConfig ==
    [Provider |-> "", BaseURL |-> <<>>, Model |-> "", Timeout |-> 0, Options |-> "nil"]

\* the configurations handed to CreateWithConfig
Configs ==
    {DefaultConfig} \cup
    [Provider : LookupNames, BaseURL : URLs, Model : Models,
     Timeout : {5}, Options : {"testOptions"}]

\* the configurations a caller constructs the Ollama backend with directly
EmbedderConfigs ==
    {DefaultConfig,
     [Provider |-> "ollama", BaseURL |-> <<Host, "/">>, Model |-> "test-model",
      Timeout |-> 5, Options |-> "testOptions"]}

\* providerFunc(config): the closure NewFactory registers returns what
\* NewOllamaEmbedder returns, converted to Embedder; a constructor of the
\* caller's returns its own backend
ProviderFunc(provider, config, h, resp) ==
    IF provider = OllamaProvider
    THEN LET r == NewOllamaEmbedder(config, h, resp) IN
         [err |-> r.err, calls |-> r.calls, val |-> Iface("*OllamaEmbedder", r.val)]
    ELSE [err |-> NoErr,
          calls |-> <<>>,
          val |-> Iface("*MockEmbedder",
                        [type |-> "mock", model |-> config.Model, by |-> provider])]

\* a bug: a second registration replaces the first
RegisterProviderOverwrite(f, name, provider) ==
    IF name \in DOMAIN f
    THEN [providers |-> [f EXCEPT ![name] = provider],
          err |-> [kind |-> "already registered", name |-> name]]
    ELSE [providers |-> f @@ (name :> provider), err |-> NoErr]

\* a bug: a registration starts the map afresh
RegisterProviderReset(f, name, provider) ==
    IF name \in DOMAIN f
    THEN [providers |-> f, err |-> [kind |-> "already registered", name |-> name]]
    ELSE [providers |-> (name :> provider), err |-> NoErr]

\* RegisterProvider: the map after the call, and the error
RegisterProvider(f, name, provider) ==
    IF name \in DOMAIN f
    THEN [providers |-> f, err |-> [kind |-> "already registered", name |-> name]]
    ELSE [providers |-> f @@ (name :> provider), err |-> NoErr]

NewFactory == RegisterProvider(<<>>, "ollama", OllamaProvider).providers

\* a bug: an unknown name falls back to the default provider
CreateFallback(f, provider, h, resp) ==
    LET name   == IF provider \in DOMAIN f THEN provider ELSE DefaultConfig.Provider
        config == [DefaultConfig EXCEPT !.Provider = provider]
        r      == ProviderFunc(f[name], config, h, resp)
    IN  [providers |-> f, err |-> r.err, calls |-> r.calls, val |-> r.val,
         invoked |-> <<[config |-> config, ctor |-> f[name]]>>]

\* Create: invoked logs each constructor call with the configuration passed
Create(f, provider, h, resp) ==
    IF provider \notin DOMAIN f
    THEN [providers |-> f, err |-> [kind |-> "unsupported provider", name |-> provider],
          calls |-> <<>>, val |-> NilIface, invoked |-> <<>>]
    ELSE LET config == [DefaultConfig EXCEPT !.Provider = provider]
             r      == ProviderFunc(f[provider], config, h, resp)
         IN  [providers |-> f, err |-> r.err, calls |-> r.calls, val |-> r.val,
              invoked |-> <<[config |-> config, ctor |-> f[provider]]>>]

CreateWithConfig(f, config, h, resp) ==
    IF config.Provider \notin DOMAIN f
    THEN [providers |-> f, err |-> [kind |-> "unsupported provider", name |-> config.Provider],
          calls |-> <<>>, val |-> NilIface, invoked |-> <<>>]
    ELSE LET r == ProviderFunc(f[config.Provider], config, h, resp)
         IN  [providers |-> f, err |-> r.err, calls |-> r.calls, val |-> r.val,
              invoked |-> <<[config |-> config, ctor |-> f[config.Provider]]>>]

\* ListProviders: the names in the order the map iteration yields them
Orders(S) ==
    {s \in [1..Cardinality(S) -> S] : \A i, j \in DOMAIN s : s[i] = s[j] => i = j}
ListProviders(f, order) == [providers |-> f, val |-> order]

\* New(provider): a builder on the process-wide factory
New(provider) ==
    [type   |-> "builder",
     config |-> [Provider |-> provider,
                 BaseURL  |-> DefaultConfig.BaseURL,
                 Model    |-> DefaultConfig.Model,
                 Timeout  |-> DefaultConfig.Timeout,
                 Options  |-> "emptyOptions"]]

\* EmbedderConfig.GetConfig
GetConfig(c) == c.config

\* a bug: Build creates by the provider's name and drops the configuration
BuildByName(f, b, h, resp) == Create(f, GetConfig(b).Provider, h, resp)

\* Build: CreateWithConfig on the builder's factory with the builder's configuration
Build(f, b, h, resp) == CreateWithConfig(f, GetConfig(b), h, resp)

\* ------------------------------------------------------------ config.go
\* the option maps live on the heap; a Config holds the address of its map, or
\* "nil".  An address names the place that makes the map: DefaultConfig, New,
\* the caller's Config literal, yaml.Unmarshal, and make() in WithOption and
\* LoadConfig.
OptionMaps ==
    {"defaultOptions", "emptyOptions", "testOptions", "fileOptions", "madeOptions"}
OptionKeys == {"k1", "k2"}
OptionValues == {"v1"}
EmptyMap == <<>>
make(h, addr) == [h EXCEPT ![addr] = EmptyMap]
\* the garbage collector: a map that neither DefaultConfig nor the caller's
\* builder or config manager c refers to is gone
Collect(h, c) ==
    [a \in OptionMaps |->
        IF a = "defaultOptions" \/ a = c.config.Options THEN h[a] ELSE EmptyMap]
\* m[key] = value
MapSet(m, key, value) ==
    [k \in DOMAIN m \cup {key} |-> IF k = key THEN value ELSE m[k]]

\* NewConfig: a copy of DefaultConfig (the copy holds the same map)
NewConfig == [type |-> "config", config |-> DefaultConfig]

ConfigWithProvider(c, provider) == [c EXCEPT !.config.Provider = provider]
ConfigWithBaseURL(c, baseURL) == [c EXCEPT !.config.BaseURL = baseURL]
ConfigWithModel(c, model) == [c EXCEPT !.config.Model = model]
ConfigWithTimeout(c, timeout) == [c EXCEPT !.config.Timeout = timeout]

\* a bug: the map is made anew on every call
ConfigWithOptionFresh(c, h, key, value) ==
    [recv |-> [c EXCEPT !.config.Options = "madeOptions"],
     mem  |-> [h EXCEPT !["madeOptions"] = MapSet(EmptyMap, key, value)]]

\* EmbedderConfig.WithOption: the receiver and the heap after the call
ConfigWithOption(c, h, key, value) ==
    LET isNil == c.config.Options = "nil"
        addr  == IF isNil THEN "madeOptions" ELSE c.config.Options
        h1    == IF isNil THEN make(h, addr) ELSE h
    IN  [recv |-> [c EXCEPT !.config.Options = addr],
         mem  |-> [h1 EXCEPT ![addr] = MapSet(@, key, value)]]

\* a configuration file: whether it can be read, whether it parses, and the
\* document: the top-level keys it has and those of them it gives empty
\* (an empty string, a zero duration, a null mapping)
FileKeys == {"provider", "base_url", "model", "timeout", "options"}
Documents ==
    {d \in [keys : SUBSET FileKeys, empty : SUBSET FileKeys] : d.empty \in {{}, d.keys}}
Files ==
    {[readable |-> FALSE, parsable |-> FALSE, doc |-> [keys |-> {}, empty |-> {}]],
     [readable |-> TRUE, parsable |-> FALSE, doc |-> [keys |-> {"model"}, empty |-> {}]]}
    \cup {[readable |-> TRUE, parsable |-> TRUE, doc |-> d] : d \in Documents}
\* what the file says for a key it gives a value
FileText(key) ==
    CASE key = "provider" -> "mock"
      [] key = "base_url" -> "http://localhost:11434/"
      [] key = "model"    -> "test-model"
      [] key = "timeout"  -> "5s"
      [] key = "options"  -> ("k1" :> "v2")
\* the text of a key: absent and empty both leave the field at its zero value
Given(doc, key) == key \in doc.keys /\ key \notin doc.empty
ParseURL(text) == IF text = "http://localhost:11434/" THEN <<Host, "/">> ELSE <<Host>>
ParseDuration(text) == IF text = "5s" THEN 5 ELSE IF text = "30s" THEN 30 ELSE 0

\* yaml.Unmarshal(data, &config) on a zero Config
Unmarshal(doc) ==
    [Provider |-> IF Given(doc, "provider") THEN FileText("provider") ELSE "",
     BaseURL  |-> IF Given(doc, "base_url") THEN ParseURL(FileText("base_url")) ELSE <<>>,
     Model    |-> IF Given(doc, "model") THEN FileText("model") ELSE "",
     Timeout  |-> IF Given(doc, "timeout") THEN ParseDuration(FileText("timeout")) ELSE 0,
     Options  |-> IF Given(doc, "options") THEN "fileOptions" ELSE "nil"]

\* a bug: the loaded configuration is returned as it was read
LoadConfigRaw(file, h) ==
    IF ~file.readable
    THEN [err |-> [kind |-> "read"], val |-> NoConfig, mem |-> h]
    ELSE IF ~file.parsable
    THEN [err |-> [kind |-> "parse"], val |-> NoConfig, mem |-> h]
    ELSE [err |-> NoErr, val |-> Unmarshal(file.doc),
          mem |-> IF Given(file.doc, "options")
                  THEN [h EXCEPT !["fileOptions"] = FileText("options")] ELSE h]

\* LoadConfig(path): the configuration (NoConfig for nil), the error, the heap
LoadConfig(file, h) ==
    IF ~file.readable
    THEN [err |-> [kind |-> "read"], val |-> NoConfig, mem |-> h]
    ELSE IF ~file.parsable
    THEN [err |-> [kind |-> "parse"], val |-> NoConfig, mem |-> h]
    ELSE LET config == Unmarshal(file.doc)
             h1 == IF config.Options = "nil" THEN make(h, "madeOptions")
                   ELSE [h EXCEPT !["fileOptions"] = FileText("options")]
         IN  [err |-> NoErr,
              val |-> [Provider |-> IF config.Provider = "" THEN DefaultConfig.Provider
                                    ELSE config.Provider,
                       BaseURL  |-> IF config.BaseURL = <<>> THEN DefaultConfig.BaseURL
                                    ELSE config.BaseURL,
                       Model    |-> IF config.Model = "" THEN DefaultConfig.Model
                                    ELSE config.Model,
                       Timeout  |-> IF config.Timeout = 0 THEN DefaultConfig.Timeout
                                    ELSE config.Timeout,
                       Options  |-> IF config.Options = "nil" THEN "madeOptions"
                                    ELSE config.Options],
              mem |-> h1]

\* a bug: the fields read so far are stored before the error is returned
ConfigLoadConfigPartial(c, file, h) ==
    LET r == LoadConfig(file, h) IN
    IF r.err # NoErr
    THEN [err |-> r.err, recv |-> [c EXCEPT !.config.Model = FileText("model")], mem |-> h]
    ELSE [err |-> NoErr, recv |-> [c EXCEPT !.config = r.val], mem |-> r.mem]

\* EmbedderConfig.LoadConfig: the receiver after the call, the error, the heap
ConfigLoadConfig(c, file, h) ==
    LET r == LoadConfig(file, h) IN
    IF r.err # NoErr
    THEN [err |-> r.err, recv |-> c, mem |-> h]
    ELSE [err |-> NoErr, recv |-> [c EXCEPT !.config = r.val], mem |-> r.mem]

\* --------------------------------------------- factory.go: the builder
WithBaseURL(b, baseURL) == ConfigWithBaseURL(b, baseURL)
WithModel(b, model) == ConfigWithModel(b, model)
\* the builder's WithTimeout returns the builder and stores nothing
WithTimeout(b, timeout) == b
WithOption(b, h, key, value) == ConfigWithOption(b, h, key, value)
\* a bug: only the fields the file gives are stored over the builder's
BuilderLoadConfigMerge(b, file, h) ==
    LET r == ConfigLoadConfig(b, file, h)
        doc == file.doc
    IN  IF r.err # NoErr THEN r
        ELSE [err  |-> NoErr,
              recv |-> [b EXCEPT
                  !.config.Provider = IF Given(doc, "provider") THEN r.recv.config.Provider ELSE @,
                  !.config.BaseURL  = IF Given(doc, "base_url") THEN r.recv.config.BaseURL ELSE @,
                  !.config.Model    = IF Given(doc, "model") THEN r.recv.config.Model ELSE @,
                  !.config.Timeout  = IF Given(doc, "timeout") THEN r.recv.config.Timeout ELSE @,
                  !.config.Options  = IF Given(doc, "options") THEN r.recv.config.Options ELSE @],
              mem  |-> IF Given(doc, "options") THEN r.mem ELSE h]
BuilderLoadConfig(b, file, h) == ConfigLoadConfig(b, file, h)

\* ------------------------------------------------------- the lock, threads
\* sync.RWMutex: the writer holding it (0 for none), the writers that have
\* announced themselves and wait, and how many read locks each goroutine holds
Threads == 1..NumThreads
NoLock == [w |-> 0, pending |-> {}, readers |-> [t \in Threads |-> 0]]
\* Lock waits for the writer and for every reader; RLock waits for the writer
\* and for a writer that waits
CanLock(m) == m.w = 0 /\ \A u \in Threads : m.readers[u] = 0
CanRLock(m) == m.w = 0 /\ m.pending = {}

\* a goroutine: the calls it is in (the last is the innermost), and what the
\* calls it made have returned
NoThread == [stack |-> <<>>, results |-> <<>>]

\* the statements of each registry method that touch the lock or the map, in
\* the order the method runs them
\* a bug: the map is read and written without the lock
RegisterProviderStepsUnlocked == <<"check", "insert", "return">>
RegisterProviderSteps == <<"Lock", "check", "insert", "Unlock", "return">>
\* a bug: the read lock is released by defer, after the constructor
CreateStepsDeferred == <<"RLock", "lookup", "exists", "call", "RUnlock", "return">>
CreateSteps == <<"RLock", "lookup", "RUnlock", "exists", "call", "return">>
CreateWithConfigSteps == <<"RLock", "lookup", "RUnlock", "exists", "call", "return">>
ListProvidersSteps == <<"RLock", "range", "RUnlock", "return">>
Program(name) ==
    CASE name = "RegisterProvider" -> RegisterProviderSteps
      [] name = "Create"           -> CreateSteps
      [] name = "CreateWithConfig" -> CreateWithConfigSteps
      [] name = "ListProviders"    -> ListProvidersSteps
\* where a return statement before the end of a method goes on: the deferred
\* unlock when there is one, the return
ReturnFrom(steps, pc) ==
    CHOOSE i \in (pc + 1)..Len(steps) :
        /\ steps[i] \in {"Unlock", "RUnlock", "return"}
        /\ \A j \in (pc + 1)..(i - 1) : steps[j] \notin {"Unlock", "RUnlock", "return"}

\* --------------------------- ollama.go: a call under the caller's context
\* the locals of BatchEmbed (offset is its i) and of the Embed it is in (index
\* is its i), the statement reached, the state of ctx, and history: the
\* single-item calls made (tried), and how many had been made and how many
\* requests had been sent when ctx was cancelled
NoRun ==
    [err |-> NoErr, calls |-> <<>>, val |-> NilSlice, index |-> 0,
     batchSize |-> 0, chunks |-> <<>>, pc |-> "idle", items |-> <<>>,
     ctx |-> "live", offset |-> 0, embeddings |-> NilSlice, tried |-> 0,
     fired |-> [tried |-> -1, sent |-> -1]]
\* a bug: the request is made with http.NewRequest, under context.Background()
RequestBackground(ctx) == "live"
\* http.NewRequestWithContext(ctx, ...): the context the request is under
RequestWithContext(ctx) == ctx
\* the chunk BatchEmbed is at: texts[i:end]
Batch(r) == SubSeq(r.items, r.offset + 1, Min(r.offset + r.batchSize, Len(r.items)))

\* ------------------------------------------------------------ the calls
NoOp ==
    [config |-> NoConfig, batchSize |-> 0, provider |-> "", name |-> "none",
     ctor |-> "", key |-> "", file |-> "none", items |-> <<>>, arg |-> "",
     had |-> <<>>]
Ret(val, err, calls) ==
    [err |-> err, calls |-> calls, val |-> val, chunks |-> <<>>,
     status |-> "returned", invoked |-> <<>>]

Init ==
    /\ providers = NewFactory
    /\ firstReg = NewFactory
    /\ builder = NoBuilder
    /\ emb = NoEmbedder
    /\ built = NoEmbedder
    /\ op = NoOp
    /\ out = Ret(NilSlice, NoErr, <<>>)
    /\ heap = [a \in OptionMaps |-> EmptyMap]
    /\ mu = NoLock
    /\ threads = [t \in Threads |-> NoThread]
    /\ run = NoRun

CallRegisterProvider ==
    \E name \in ProviderNames, provider \in CustomProviders :
    \E r \in {RegisterProvider(providers, name, provider)} :
        /\ providers' = r.providers
        /\ firstReg' = IF r.err = NoErr /\ name \notin DOMAIN firstReg
                       THEN firstReg @@ (name :> provider) ELSE firstReg
        /\ op' = [NoOp EXCEPT !.name = "RegisterProvider", !.provider = name,
                              !.ctor = provider]
        /\ out' = Ret(NilSlice, r.err, <<>>)
        /\ UNCHANGED <<builder, emb, built, heap, mu, threads, run>>

CallCreate ==
    \E name \in LookupNames, h \in HealthOutcomes, resp \in ProbeResponses :
    \E r \in {Create(providers, name, h, resp)} :
        /\ providers' = r.providers
        /\ op' = [NoOp EXCEPT !.name = "Create", !.provider = name]
        /\ out' = [Ret(r.val, r.err, r.calls) EXCEPT !.invoked = r.invoked]
        /\ UNCHANGED <<firstReg, builder, emb, built, heap, mu, threads, run>>

CallCreateWithConfig ==
    \E config \in Configs, h \in HealthOutcomes, resp \in ProbeResponses :
    \E r \in {CreateWithConfig(providers, config, h, resp)} :
        /\ providers' = r.providers
        /\ op' = [NoOp EXCEPT !.name = "CreateWithConfig",
                              !.provider = config.Provider, !.config = config]
        /\ out' = [Ret(r.val, r.err, r.calls) EXCEPT !.invoked = r.invoked]
        /\ UNCHANGED <<firstReg, builder, emb, built, heap, mu, threads, run>>

CallListProviders ==
    \E order \in Orders(DOMAIN providers) :
    \E r \in {ListProviders(providers, order)} :
        /\ providers' = r.providers
        /\ op' = [NoOp EXCEPT !.name = "ListProviders"]
        /\ out' = Ret([isNil |-> FALSE, elems |-> r.val], NoErr, <<>>)
        /\ UNCHANGED <<firstReg, builder, emb, built, heap, mu, threads, run>>

CallNew ==
    \E provider \in LookupNames :
        /\ builder' = New(provider)
        /\ heap' = Collect(make(heap, New(provider).config.Options), New(provider))
        /\ op' = [NoOp EXCEPT !.name = "New", !.provider = provider]
        /\ out' = Ret(NilSlice, NoErr, <<>>)
        /\ UNCHANGED <<providers, firstReg, emb, built, mu, threads, run>>

CallBuild ==
    /\ builder.type = "builder"
    /\ \E h \in HealthOutcomes, resp \in ProbeResponses :
       \E r \in {Build(providers, builder, h, resp)} :
           /\ providers' = r.providers
           /\ op' = [NoOp EXCEPT !.name = "Build",
                                 !.provider = GetConfig(builder).Provider,
                                 !.config = GetConfig(builder)]
           /\ out' = [Ret(r.val, r.err, r.calls) EXCEPT !.invoked = r.invoked]
           /\ UNCHANGED <<firstReg, builder, emb, built, heap, mu, threads, run>>

\* NewOllamaEmbedder called directly; the caller keeps the instance it gets
CallNewOllamaEmbedder ==
    \E config \in EmbedderConfigs, h \in HealthOutcomes, resp \in ProbeResponses :
    \E r \in {NewOllamaEmbedder(config, h, resp)} :
        /\ emb' = IF r.err = NoErr THEN r.val ELSE emb
        /\ built' = IF r.err = NoErr THEN r.val ELSE built
        /\ op' = [NoOp EXCEPT !.name = "NewOllamaEmbedder", !.config = config]
        /\ out' = Ret(r.val, r.err, r.calls)
        /\ UNCHANGED <<providers, firstReg, builder, heap, mu, threads, run>>

\* the registry, the builder and construction
Next ==
    \/ CallRegisterProvider
    \/ CallCreate
    \/ CallCreateWithConfig
    \/ CallListProviders
    \/ CallNew
    \/ CallBuild
    \/ CallNewOllamaEmbedder

Spec == Init /\ [][Next]_vars

\* ------------------------------------------------- the calls on a backend
CallEmbed ==
    /\ emb # NoEmbedder
    /\ \E texts \in ItemSeqs :
       \E r \in {Embed(emb, texts)} :
           /\ emb' = r.recv
           /\ op' = [NoOp EXCEPT !.name = "Embed", !.items = texts]
           /\ out' = Ret(r.val, r.err, r.calls)
           /\ UNCHANGED <<providers, firstReg, builder, built, heap, mu, threads, run>>

CallEmbedSingle ==
    /\ emb # NoEmbedder
    /\ \E item \in Items :
       \E r \in {EmbedSingle(emb, item.text, item.resp)} :
           /\ emb' = r.recv
           /\ op' = [NoOp EXCEPT !.name = "EmbedSingle", !.items = <<item>>]
           /\ out' = Ret(r.val, r.err, r.calls)
           /\ UNCHANGED <<providers, firstReg, builder, built, heap, mu, threads, run>>

CallBatchEmbed ==
    /\ emb # NoEmbedder
    /\ \E texts \in ItemSeqs, batchSize \in BatchSizes :
       \E r \in {BatchEmbed(emb, texts, batchSize)} :
           /\ emb' = r.recv
           /\ op' = [NoOp EXCEPT !.name = "BatchEmbed", !.items = texts,
                                 !.batchSize = batchSize]
           /\ out' = [Ret(r.val, r.err, r.calls) EXCEPT !.status = r.status,
                                                        !.chunks = r.chunks]
           /\ UNCHANGED <<providers, firstReg, builder, built, heap, mu, threads, run>>

CallHealth ==
    /\ emb # NoEmbedder
    /\ \E h \in HealthOutcomes :
       \E r \in {Health(emb, h)} :
           /\ emb' = r.recv
           /\ op' = [NoOp EXCEPT !.name = "Health"]
           /\ out' = Ret(NilSlice, r.err, r.calls)
           /\ UNCHANGED <<providers, firstReg, builder, built, heap, mu, threads, run>>

CallGetDimension ==
    /\ emb # NoEmbedder
    /\ op' = [NoOp EXCEPT !.name = "GetDimension"]
    /\ out' = Ret(GetDimension(emb), NoErr, <<>>)
    /\ UNCHANGED <<providers, firstReg, builder, emb, built, heap, mu, threads, run>>

CallGetModel ==
    /\ emb # NoEmbedder
    /\ op' = [NoOp EXCEPT !.name = "GetModel"]
    /\ out' = Ret(GetModel(emb), NoErr, <<>>)
    /\ UNCHANGED <<providers, firstReg, builder, emb, built, heap, mu, threads, run>>

\* a backend: its construction and every call on it
NextEmbedder ==
    \/ CallNewOllamaEmbedder
    \/ CallEmbed
    \/ CallEmbedSingle
    \/ CallBatchEmbed
    \/ CallHealth
    \/ CallGetDimension
    \/ CallGetModel

SpecEmbedder == Init /\ [][NextEmbedder]_vars

\* ------------------------------------- the calls on a builder or a config
\* arguments handed to the setters: the empty value of each type among them
SetterProviders == {"", "mock"}
SetterURLs == {<<>>, <<Host, "/">>}
SetterModels == {"", "test-model"}
SetterTimeouts == {0, 10}

CallNewConfig ==
    /\ builder' = NewConfig
    /\ heap' = Collect(heap, NewConfig)
    /\ op' = [NoOp EXCEPT !.name = "NewConfig"]
    /\ out' = Ret(NewConfig, NoErr, <<>>)
    /\ UNCHANGED <<providers, firstReg, emb, built, mu, threads, run>>

CallWithProvider ==
    /\ builder.type = "config"
    /\ \E provider \in SetterProviders :
        /\ builder' = ConfigWithProvider(builder, provider)
        /\ op' = [NoOp EXCEPT !.name = "WithProvider", !.arg = provider]
        /\ out' = Ret(builder', NoErr, <<>>)
        /\ UNCHANGED <<providers, firstReg, emb, built, heap, mu, threads, run>>

CallWithBaseURL ==
    /\ builder # NoBuilder
    /\ \E baseURL \in SetterURLs :
        /\ builder' = WithBaseURL(builder, baseURL)
        /\ op' = [NoOp EXCEPT !.name = "WithBaseURL", !.arg = baseURL]
        /\ out' = Ret(builder', NoErr, <<>>)
        /\ UNCHANGED <<providers, firstReg, emb, built, heap, mu, threads, run>>

CallWithModel ==
    /\ builder # NoBuilder
    /\ \E model \in SetterModels :
        /\ builder' = WithModel(builder, model)
        /\ op' = [NoOp EXCEPT !.name = "WithModel", !.arg = model]
        /\ out' = Ret(builder', NoErr, <<>>)
        /\ UNCHANGED <<providers, firstReg, emb, built, heap, mu, threads, run>>

\* EmbedderBuilder.WithTimeout on a builder, EmbedderConfig.WithTimeout on a config
CallWithTimeout ==
    /\ builder # NoBuilder
    /\ \E timeout \in SetterTimeouts :
        /\ builder' = IF builder.type = "builder" THEN WithTimeout(builder, timeout)
                      ELSE ConfigWithTimeout(builder, timeout)
        /\ op' = [NoOp EXCEPT !.name = "WithTimeout", !.arg = timeout]
        /\ out' = Ret(builder', NoErr, <<>>)
        /\ UNCHANGED <<providers, firstReg, emb, built, heap, mu, threads, run>>

CallWithOption ==
    /\ builder # NoBuilder
    /\ \E key \in OptionKeys, value \in OptionValues :
       \E r \in {WithOption(builder, heap, key, value)} :
           /\ builder' = r.recv
           /\ heap' = r.mem
           /\ op' = [NoOp EXCEPT !.name = "WithOption", !.key = key, !.arg = value]
           /\ out' = Ret(r.recv, NoErr, <<>>)
           /\ UNCHANGED <<providers, firstReg, emb, built, mu, threads, run>>

CallLoadConfig ==
    /\ builder # NoBuilder
    /\ \E file \in Files :
       \E r \in {BuilderLoadConfig(builder, file, heap)} :
           /\ builder' = r.recv
           /\ heap' = Collect(r.mem, r.recv)
           /\ op' = [NoOp EXCEPT !.name = "LoadConfig", !.file = file,
                                 !.config = IF builder.type = "builder"
                                            THEN builder.config ELSE NoConfig,
                                 !.had = IF builder.type = "builder"
                                         THEN heap[builder.config.Options]
                                         ELSE EmptyMap]
           /\ out' = Ret(NilSlice, r.err, <<>>)
           /\ UNCHANGED <<providers, firstReg, emb, built, mu, threads, run>>

\* CreateWithConfig(c.GetConfig()) with the configuration a config manager holds
CallCreateWithGetConfig ==
    /\ builder.type = "config"
    /\ \E h \in HealthOutcomes, resp \in ProbeResponses :
       \E r \in {CreateWithConfig(providers, GetConfig(builder), h, resp)} :
           /\ providers' = r.providers
           /\ op' = [NoOp EXCEPT !.name = "CreateWithConfig",
                                 !.provider = GetConfig(builder).Provider,
                                 !.config = GetConfig(builder)]
           /\ out' = [Ret(r.val, r.err, r.calls) EXCEPT !.invoked = r.invoked]
           /\ UNCHANGED <<firstReg, builder, emb, built, heap, mu, threads, run>>

\* the builder: New, the chained setters, LoadConfig, Build
NextBuilder ==
    \/ CallNew
    \/ CallWithBaseURL
    \/ CallWithModel
    \/ CallWithTimeout
    \/ CallWithOption
    \/ CallLoadConfig
    \/ CallBuild

SpecBuilder == Init /\ [][NextBuilder]_vars

\* configuration managers one after another: NewConfig, the setters of the
\* provider, the model and the options, LoadConfig, CreateWithConfig with
\* what GetConfig returns, and Create
NextConfig ==
    \/ CallCreate
    \/ CallNewConfig
    \/ CallWithProvider
    \/ CallWithModel
    \/ CallWithOption
    \/ CallLoadConfig
    \/ CallCreateWithGetConfig

SpecConfig == Init /\ [][NextConfig]_vars

\* ------------------------------------ the registry called by goroutines
\* the calls a goroutine makes, and the calls a constructor of the caller's
\* makes on the registry it was called from
GoCalls ==
    [provider : {"mock"}, name : {"RegisterProvider"}, ctor : CustomProviders]
    \cup [provider : ProviderNames, name : {"Create"}, ctor : {""}]
    \cup [provider : {"mock"}, name : {"CreateWithConfig"}, ctor : {""}]
    \cup [provider : {""}, name : {"ListProviders"}, ctor : {""}]
NestedCalls ==
    {[provider |-> "mock", name |-> "RegisterProvider", ctor |-> "c1"],
     [provider |-> "ollama", name |-> "Create", ctor |-> ""],
     [provider |-> "", name |-> "ListProviders", ctor |-> ""]}

\* history: the names whose successful registration has returned
AllResults == UNION {Range(threads[t].results) : t \in Threads}
ReturnedOk ==
    {r.provider : r \in {x \in AllResults : x.name = "RegisterProvider" /\ x.err = NoErr}}

\* the frame of a call: its arguments, the statement it is at, its locals
Frame(call) ==
    [err |-> NoErr, provider |-> call.provider, name |-> call.name,
     ctor |-> call.ctor, pc |-> 1, found |-> "", seen |-> ReturnedOk,
     nested |-> FALSE]
Top(t) == threads[t].stack[Len(threads[t].stack)]
Instr(t) == Program(Top(t).name)[Top(t).pc]
At(t, ins) == threads[t].stack # <<>> /\ Instr(t) = ins
SetTop(t, fr) == [threads EXCEPT ![t].stack = [@ EXCEPT ![Len(@)] = fr]]
Advance(t) == SetTop(t, [Top(t) EXCEPT !.pc = @ + 1])

\* a goroutine calls the registry
GoStart(t) ==
    /\ threads[t] = NoThread
    /\ \E call \in GoCalls :
           threads' = [threads EXCEPT ![t].stack = <<Frame(call)>>]
    /\ UNCHANGED <<providers, firstReg, builder, emb, built, op, out, heap, mu, run>>

\* f.mu.Lock()
GoLock(t) ==
    /\ At(t, "Lock")
    /\ CanLock(mu)
    /\ mu' = [mu EXCEPT !.w = t, !.pending = @ \ {t}]
    /\ threads' = Advance(t)
    /\ UNCHANGED <<providers, firstReg, builder, emb, built, op, out, heap, run>>

\* f.mu.Lock() finds the lock taken: the writer announces itself and waits
GoLockWait(t) ==
    /\ At(t, "Lock")
    /\ ~CanLock(mu)
    /\ t \notin mu.pending
    /\ mu' = [mu EXCEPT !.pending = @ \cup {t}]
    /\ UNCHANGED <<providers, firstReg, builder, emb, built, op, out, heap, threads, run>>

\* f.mu.Unlock()
GoUnlock(t) ==
    /\ At(t, "Unlock")
    /\ mu' = [mu EXCEPT !.w = 0]
    /\ threads' = Advance(t)
    /\ UNCHANGED <<providers, firstReg, builder, emb, built, op, out, heap, run>>

\* f.mu.RLock()
GoRLock(t) ==
    /\ At(t, "RLock")
    /\ CanRLock(mu)
    /\ mu' = [mu EXCEPT !.readers[t] = @ + 1]
    /\ threads' = Advance(t)
    /\ UNCHANGED <<providers, firstReg, builder, emb, built, op, out, heap, run>>

\* f.mu.RUnlock()
GoRUnlock(t) ==
    /\ At(t, "RUnlock")
    /\ mu' = [mu EXCEPT !.readers[t] = @ - 1]
    /\ threads' = Advance(t)
    /\ UNCHANGED <<providers, firstReg, builder, emb, built, op, out, heap, run>>

\* RegisterProvider: if _, exists := f.providers[name]; exists { return error }
GoCheck(t) ==
    /\ At(t, "check")
    /\ threads' =
         IF Top(t).provider \in DOMAIN providers
         THEN SetTop(t, [Top(t) EXCEPT
                  !.pc = ReturnFrom(Program(Top(t).name), Top(t).pc),
                  !.err = [kind |-> "already registered", name |-> Top(t).provider]])
         ELSE Advance(t)
    /\ UNCHANGED <<providers, firstReg, builder, emb, built, op, out, heap, mu, run>>

\* RegisterProvider: f.providers[name] = provider
GoInsert(t) ==
    /\ At(t, "insert")
    /\ providers' = (Top(t).provider :> Top(t).ctor) @@ providers
    /\ firstReg' = IF Top(t).provider \in DOMAIN firstReg THEN firstReg
                   ELSE firstReg @@ (Top(t).provider :> Top(t).ctor)
    /\ threads' = Advance(t)
    /\ UNCHANGED <<builder, emb, built, op, out, heap, mu, run>>

\* Create, CreateWithConfig: providerFunc, exists := f.providers[provider]
GoLookup(t) ==
    /\ At(t, "lookup")
    /\ threads' = SetTop(t, [Top(t) EXCEPT
           !.pc = @ + 1,
           !.found = IF Top(t).provider \in DOMAIN providers
                     THEN providers[Top(t).provider] ELSE ""])
    /\ UNCHANGED <<providers, firstReg, builder, emb, built, op, out, heap, mu, run>>

\* Create, CreateWithConfig: if !exists { return nil, error }
GoExists(t) ==
    /\ At(t, "exists")
    /\ threads' =
         IF Top(t).found = ""
         THEN SetTop(t, [Top(t) EXCEPT
                  !.pc = ReturnFrom(Program(Top(t).name), Top(t).pc),
                  !.err = [kind |-> "unsupported provider", name |-> Top(t).provider]])
         ELSE Advance(t)
    /\ UNCHANGED <<providers, firstReg, builder, emb, built, op, out, heap, mu, run>>

\* ListProviders: for name := range f.providers
GoRange(t) ==
    /\ At(t, "range")
    /\ threads' = SetTop(t, [Top(t) EXCEPT !.pc = @ + 1, !.found = DOMAIN providers])
    /\ UNCHANGED <<providers, firstReg, builder, emb, built, op, out, heap, mu, run>>

\* providerFunc(config) is running: a constructor of the caller's calls the
\* registry
GoCtorCall(t) ==
    /\ At(t, "call")
    /\ Top(t).found \in CustomProviders
    /\ ~Top(t).nested
    /\ \E call \in NestedCalls :
           threads' = [SetTop(t, [Top(t) EXCEPT !.nested = TRUE])
                          EXCEPT ![t].stack = Append(@, Frame(call))]
    /\ UNCHANGED <<providers, firstReg, builder, emb, built, op, out, heap, mu, run>>

\* providerFunc(config) returns
GoCtorReturn(t) ==
    /\ At(t, "call")
    /\ threads' = Advance(t)
    /\ UNCHANGED <<providers, firstReg, builder, emb, built, op, out, heap, mu, run>>

\* the method returns to its caller
GoReturn(t) ==
    /\ At(t, "return")
    /\ threads' = [threads EXCEPT
           ![t].stack = SubSeq(@, 1, Len(@) - 1),
           ![t].results = Append(@, [err |-> Top(t).err,
                                     provider |-> Top(t).provider,
                                     name |-> Top(t).name,
                                     ctor |-> Top(t).ctor,
                                     found |-> Top(t).found,
                                     seen |-> Top(t).seen])]
    /\ UNCHANGED <<providers, firstReg, builder, emb, built, op, out, heap, mu, run>>

\* a step of a goroutine inside a call
GoStep(t) ==
    \/ GoLock(t)
    \/ GoLockWait(t)
    \/ GoUnlock(t)
    \/ GoRLock(t)
    \/ GoRUnlock(t)
    \/ GoCheck(t)
    \/ GoInsert(t)
    \/ GoLookup(t)
    \/ GoExists(t)
    \/ GoRange(t)
    \/ GoCtorCall(t)
    \/ GoCtorReturn(t)
    \/ GoReturn(t)

NextConcurrent == \E t \in Threads : GoStart(t) \/ GoStep(t)

SpecConcurrent == Init /\ [][NextConcurrent]_vars

\* ------------------------------- BatchEmbed, statement by statement, and ctx
Running == run.pc \notin {"idle", "done"}
CtxErr == [kind |-> "failed to embed text", cause |-> [kind |-> "context canceled"]]
\* what the call returns
Return(r) ==
    [Ret(r.val, r.err, r.calls) EXCEPT !.chunks = r.chunks]

\* BatchEmbed is called: if batchSize <= 0 { batchSize = len(texts) }
StartBatchEmbed ==
    /\ emb # NoEmbedder
    /\ ~Running
    /\ \E texts \in ItemSeqs, batchSize \in BatchSizes :
           /\ run' = [NoRun EXCEPT
                  !.batchSize = IF batchSize <= 0 THEN Len(texts) ELSE batchSize,
                  !.items = texts,
                  !.pc = "for"]
           /\ op' = [NoOp EXCEPT !.name = "BatchEmbed", !.items = texts,
                                 !.batchSize = batchSize]
    /\ out' = Ret(NilSlice, NoErr, <<>>)
    /\ UNCHANGED <<providers, firstReg, builder, emb, built, heap, mu, threads>>

\* for i := 0; i < len(texts); i += batchSize: the next chunk goes to Embed,
\* or the loop is over and the results are returned
BatchFor ==
    /\ run.pc = "for"
    /\ IF run.offset < Len(run.items)
       THEN /\ run' = [run EXCEPT !.chunks = Append(@, Batch(run)),
                                  !.pc = "range",
                                  !.index = 0,
                                  !.embeddings = NilSlice]
            /\ out' = out
       ELSE /\ run' = [run EXCEPT !.pc = "done"]
            /\ out' = Return(run')
    /\ UNCHANGED <<providers, firstReg, builder, emb, built, op, heap, mu, threads>>

\* Embed: for i, text := range texts: embedSingle is called for the next
\* text, or the chunk is done and its results are appended
EmbedRange ==
    /\ run.pc = "range"
    /\ run' = IF run.index < Len(Batch(run))
              THEN [run EXCEPT !.pc = "Do", !.tried = @ + 1]
              ELSE [run EXCEPT !.val = SliceAppendAll(@, run.embeddings),
                               !.pc = "for",
                               !.offset = @ + run.batchSize]
    /\ UNCHANGED <<providers, firstReg, builder, emb, built, op, out, heap, mu, threads>>

\* makeRequest: e.httpClient.Do(req) under a context that is done returns its
\* error and sends nothing; otherwise the request goes out
ClientDo ==
    /\ run.pc = "Do"
    /\ IF RequestWithContext(run.ctx) = "cancelled"
       THEN /\ run' = [run EXCEPT
                   !.err = [kind |-> "failed to embed text at index", cause |-> CtxErr,
                            index |-> run.index],
                   !.val = NilSlice,
                   !.pc = "done"]
            /\ out' = Return(run')
       ELSE /\ run' = [run EXCEPT
                   !.calls = Append(@, Call("/api/embeddings", emb,
                                            Batch(run)[run.index + 1].text,
                                            Batch(run)[run.index + 1].resp)),
                   !.pc = "inflight"]
            /\ out' = out
    /\ UNCHANGED <<providers, firstReg, builder, emb, built, op, heap, mu, threads>>

\* the request ends: with the response of the backend, or, when its context
\* has been cancelled meanwhile, with the context's error if the transport
\* sees that first
Response ==
    /\ run.pc = "inflight"
    /\ \E aborted \in {FALSE, RequestWithContext(run.ctx) = "cancelled"} :
       \E r \in {embedSingle(emb, Batch(run)[run.index + 1].text,
                             Batch(run)[run.index + 1].resp)} :
           IF aborted \/ r.err # NoErr
           THEN /\ run' = [run EXCEPT
                       !.err = [kind |-> "failed to embed text at index",
                                cause |-> IF aborted THEN CtxErr ELSE r.err,
                                index |-> run.index],
                       !.val = NilSlice,
                       !.pc = "done"]
                /\ out' = Return(run')
           ELSE /\ run' = [run EXCEPT !.pc = "range",
                                      !.index = @ + 1,
                                      !.embeddings = SliceAppend(@, r.val)]
                /\ out' = out
    /\ UNCHANGED <<providers, firstReg, builder, emb, built, op, heap, mu, threads>>

\* the caller cancels ctx while the call is running
Cancel ==
    /\ Running
    /\ run.ctx = "live"
    /\ run' = [run EXCEPT !.ctx = "cancelled",
                          !.fired = [tried |-> run.tried, sent |-> Len(run.calls)]]
    /\ UNCHANGED <<providers, firstReg, builder, emb, built, op, out, heap, mu, threads>>

NextCancel ==
    \/ (~Running /\ emb = NoEmbedder /\ CallNewOllamaEmbedder)
    \/ StartBatchEmbed
    \/ BatchFor
    \/ EmbedRange
    \/ ClientDo
    \/ Response
    \/ Cancel

SpecCancel == Init /\ [][NextCancel]_vars

\* ------------------------------------------------------------ properties
IsLookup == op.name \in {"Create", "CreateWithConfig", "Build"}

\* the text sequence of the last call, and the items the backend fails on
AllOk(items) == \A i \in DOMAIN items : items[i].resp.kind = "ok"
FirstFailure(items) ==
    CHOOSE k \in DOMAIN items :
        /\ items[k].resp.kind # "ok"
        /\ \A j \in 1..(k - 1) : items[j].resp.kind = "ok"

\* the last call ran the Ollama constructor
Constructed ==
    \/ op.name = "NewOllamaEmbedder"
    \/ IsLookup /\ out.invoked # <<>> /\ out.invoked[1].ctor = OllamaProvider
\* the backend instance the last call handed to its caller
Returned == IF op.name = "NewOllamaEmbedder" THEN out.val ELSE out.val.ptr

\* C1: once RegisterProvider(n, c1) has succeeded, a later RegisterProvider(n, c2)
\* returns the duplicate-provider error, n stays mapped to c1, and a
\* Create / CreateWithConfig of n invokes c1.
C1_RegistryUniqueness ==
    [][\A n \in DOMAIN firstReg :
        /\ (op'.name = "RegisterProvider" /\ op'.provider = n)
              => out'.err = [kind |-> "already registered", name |-> n]
        /\ n \in DOMAIN providers' /\ providers'[n] = firstReg[n]
        /\ (op'.name \in {"Create", "CreateWithConfig"} /\ op'.provider = n)
              => /\ Len(out'.invoked) = 1
                 /\ out'.invoked[1].ctor = firstReg[n]]_vars
\* a second registration with another constructor was refused
C1_Witness ==
    /\ op.name = "RegisterProvider"
    /\ op.provider = "mock"
    /\ out.err.kind = "already registered"
    /\ firstReg["mock"] = "c1" /\ op.ctor = "c2"
    /\ providers["mock"] = "c1"

\* C2: Create and CreateWithConfig of a name that is not registered return the
\* unknown-provider error, invoke no constructor (none is substituted), send
\* nothing, and leave the registry as it was.
C2_UnknownProvider ==
    [][(op'.name \in {"Create", "CreateWithConfig"} /\ op'.provider \notin DOMAIN providers)
        => /\ out'.err = [kind |-> "unsupported provider", name |-> op'.provider]
           /\ out'.invoked = <<>>
           /\ out'.calls = <<>>
           /\ out'.val = NilIface
           /\ providers' = providers]_vars
C2_Witness ==
    /\ op.name = "CreateWithConfig"
    /\ op.provider = "mock"
    /\ "mock" \notin DOMAIN providers
    /\ out.err.kind = "unsupported provider"

\* C3: when the primitive succeeds on every item of a non-empty T, Embed(T)
\* returns Len(T) vectors and the i-th is the primitive's result for T[i].
C3_OrderPreservation ==
    (op.name = "Embed" /\ Len(op.items) > 0 /\ AllOk(op.items))
        => /\ out.err = NoErr
           /\ Len(out.val.elems) = Len(op.items)
           /\ \A i \in DOMAIN op.items :
                  out.val.elems[i] = embedSingle(emb, op.items[i].text, op.items[i].resp).val
C3_Witness ==
    /\ op.name = "Embed"
    /\ Len(op.items) = 3
    /\ AllOk(op.items)
    /\ op.items[1].text # op.items[2].text
    /\ Len(out.val.elems) = 3

\* C4: when k is the smallest index the primitive fails at, Embed(T) calls the
\* primitive once for each of the indices 0..k in order and for none after k,
\* returns an error carrying index k, and returns no results.
C4_FailFast ==
    (op.name = "Embed" /\ ~AllOk(op.items))
        => LET k == FirstFailure(op.items) IN
           /\ out.err.kind = "failed to embed text at index"
           /\ out.err.index = k - 1
           /\ out.val = NilSlice
           /\ Len(out.calls) = k
           /\ \A j \in 1..k :
                  /\ out.calls[j].path = "/api/embeddings"
                  /\ out.calls[j].prompt = op.items[j].text
                  /\ out.calls[j].resp = op.items[j].resp
C4_Witness ==
    /\ op.name = "Embed"
    /\ Len(op.items) = 3
    /\ op.items[2].resp.kind # "ok"
    /\ op.items[3].resp.kind # "ok"
    /\ out.err.kind = "failed to embed text at index"
    /\ out.err.index = 1

\* C5: for batchSize > 0 and a primitive that succeeds on every item,
\* BatchEmbed(T, batchSize) returns the vectors Embed(T) returns, in the same order.
C5_BatchEquivalence ==
    (op.name = "BatchEmbed" /\ op.batchSize > 0 /\ AllOk(op.items))
        => /\ out.status = "returned"
           /\ out.err = Embed(emb, op.items).err
           /\ out.val.elems = Embed(emb, op.items).val.elems
C5_Witness ==
    /\ op.name = "BatchEmbed"
    /\ op.batchSize = 2
    /\ Len(op.items) = 3
    /\ AllOk(op.items)
    /\ op.items[1].text # op.items[3].text
    /\ Len(out.chunks) = 2
    /\ Len(out.val.elems) = 3

\* C6: for batchSize <= 0, BatchEmbed(T, batchSize) returns, with the error and
\* the vectors of Embed(T), after at most one call of Embed, made with all of T.
C6_BatchDegenerate ==
    (op.name = "BatchEmbed" /\ op.batchSize <= 0)
        => /\ out.status = "returned"
           /\ out.err = Embed(emb, op.items).err
           /\ out.val.elems = Embed(emb, op.items).val.elems
           /\ out.calls = Embed(emb, op.items).calls
           /\ Len(out.chunks) <= 1
           /\ \A j \in DOMAIN out.chunks : out.chunks[j] = op.items
C6_Witness ==
    /\ op.name = "BatchEmbed"
    /\ op.batchSize = 0
    /\ Len(op.items) = 3
    /\ out.chunks = <<op.items>>
    /\ Len(out.val.elems) = 3

\* C7: Embed of the empty sequence returns an empty sequence and no error and
\* sends no request.
C7_EmptyInput ==
    (op.name = "Embed" /\ Len(op.items) = 0)
        => /\ out.val.elems = <<>>
           /\ out.err = NoErr
           /\ out.calls = <<>>
C7_Witness ==
    /\ op.name = "Embed"
    /\ op.items = <<>>
    /\ out.err = NoErr

\* C8: a backend constructed with dimension d and model m keeps them through
\* every later call: GetDimension returns d and GetModel returns m.
C8_DimensionStable ==
    emb # NoEmbedder
        => /\ GetDimension(emb) = built.dimension
           /\ GetModel(emb) = built.model
           /\ (op.name = "GetDimension" => out.val = built.dimension)
           /\ (op.name = "GetModel" => out.val = built.model)
\* a health check failed on a backend that had detected dimension 2
C8_Witness ==
    /\ op.name = "Health"
    /\ out.err # NoErr
    /\ built.dimension = 2
    /\ GetDimension(emb) = 2

\* C9: a construction that succeeds has sent exactly two requests: the health
\* probe, which succeeded, then one embedding of the sentinel "test", which
\* succeeded; the dimension of the backend is the length of that vector.
C9_ConstructionProtocol ==
    (Constructed /\ out.err = NoErr)
        => /\ Len(out.calls) = 2
           /\ out.calls[1].path = "/api/version"
           /\ out.calls[1].resp.kind = "ok"
           /\ out.calls[2].path = "/api/embeddings"
           /\ out.calls[2].prompt = "test"
           /\ out.calls[2].resp.kind = "ok"
           /\ Returned # NoEmbedder
           /\ GetDimension(Returned) = Len(out.calls[2].resp.embedding)
C9_Witness ==
    /\ op.name = "NewOllamaEmbedder"
    /\ out.err = NoErr
    /\ Len(out.calls) = 2
    /\ Len(out.calls[2].resp.embedding) = 2
    /\ GetDimension(emb) = 2

\* C10: a failed health probe fails construction with the backend-unavailable
\* error and no embedding request; a failed embedding probe after a good health
\* probe fails it with the dimension-detection error; neither is retried, and
\* the caller of the constructor, Create, CreateWithConfig or Build gets no instance.
C10_ConstructionFailure ==
    Constructed
        => /\ (out.calls[1].resp.kind # "ok")
                => /\ out.err.kind = "failed to connect to Ollama"
                   /\ Len(out.calls) = 1
                   /\ Returned = NoEmbedder
           /\ (out.calls[1].resp.kind = "ok" /\ out.calls[2].resp.kind # "ok")
                => /\ out.err.kind = "failed to detect embedding dimension"
                   /\ Len(out.calls) = 2
                   /\ Returned = NoEmbedder
           /\ out.calls[1].path = "/api/version"
C10_Witness ==
    /\ op.name = "Build"
    /\ Constructed
    /\ out.calls[1].resp.kind = "ok"
    /\ out.calls[2].resp.kind = "http"
    /\ out.err.kind = "failed to detect embedding dimension"
    /\ Returned = NoEmbedder


\* ---------------------------------------------- properties of the builder
\* the constructor ran in the last call, with this configuration
Invoked == out.invoked # <<>>
Passed == out.invoked[1].config

\* C11: a successful LoadConfig leaves a configuration whose provider, base
\* URL, model and timeout are the file's where the file gives a non-empty
\* value and the defaults "ollama", "http://localhost:11434", "qwen2.5:7b",
\* 30s where it does not, and whose options are the file's map or an empty map.
C11_LoadConfigBackfill ==
    (op.name = "LoadConfig" /\ out.err = NoErr)
        => LET doc == op.file.doc
               c   == builder.config
           IN  /\ c.Provider = IF Given(doc, "provider") THEN "mock" ELSE "ollama"
               /\ c.BaseURL = IF Given(doc, "base_url") THEN <<Host, "/">> ELSE <<Host>>
               /\ c.Model = IF Given(doc, "model") THEN "test-model" ELSE "qwen2.5:7b"
               /\ c.Timeout = IF Given(doc, "timeout") THEN 5 ELSE 30
               /\ c.Options \in OptionMaps
               /\ heap[c.Options] = IF Given(doc, "options") THEN ("k1" :> "v2")
                                    ELSE EmptyMap
\* a file that gives only the model was loaded over a builder with other values
C11_Witness ==
    /\ op.name = "LoadConfig"
    /\ out.err = NoErr
    /\ op.file.doc = [keys |-> {"model"}, empty |-> {}]
    /\ builder.config.Model = "test-model"
    /\ builder.config.BaseURL = DefaultConfig.BaseURL
    /\ builder.config.Provider = DefaultConfig.Provider
    /\ builder.config.Timeout = DefaultConfig.Timeout
    /\ heap[builder.config.Options] = heap[DefaultConfig.Options]

\* C12: a LoadConfig that fails (the file cannot be read, or does not parse)
\* leaves the builder's configuration, its option map included, as it was.
C12_LoadConfigAtomic ==
    [][(op'.name = "LoadConfig" /\ out'.err # NoErr)
        => /\ builder' = builder
           /\ builder.config.Options \in OptionMaps
                => heap'[builder.config.Options] = heap[builder.config.Options]]_vars
\* an unparsable file was loaded over a builder that had been given values
C12_Witness ==
    /\ op.name = "LoadConfig"
    /\ out.err = [kind |-> "parse"]
    /\ builder.config.Model = "test-model"
    /\ builder.config.BaseURL = <<Host, "/">>
    /\ heap[builder.config.Options] = ("k2" :> "v1")

\* C13: every configuration a constructor receives has a non-empty provider,
\* base URL and model, a non-zero timeout, and an option map.
C13_ConfigNonEmpty ==
    Invoked
        => /\ Passed.Provider # ""
           /\ Passed.BaseURL # <<>>
           /\ Passed.Model # ""
           /\ Passed.Timeout # 0
           /\ Passed.Options # "nil"

\* C14: the registry starts with "ollama" and only grows: a name once
\* registered stays registered with the same constructor through every call,
\* and ListProviders returns every name registered so far.
C14_RegistryGrows ==
    /\ []("ollama" \in DOMAIN providers /\ providers["ollama"] = OllamaProvider)
    /\ [][/\ \A n \in DOMAIN providers :
                n \in DOMAIN providers' /\ providers'[n] = providers[n]
          /\ (op'.name = "ListProviders")
                => /\ DOMAIN providers \subseteq Range(out'.val.elems)
                   /\ DOMAIN firstReg \subseteq Range(out'.val.elems)]_vars
\* both names were listed after a registration of the caller
C14_Witness ==
    /\ op.name = "ListProviders"
    /\ Range(out.val.elems) = {"ollama", "mock"}
    /\ providers["mock"] = "c2"

\* C16: the constructor receives, from Create(name), the default configuration
\* with the provider replaced by name; from CreateWithConfig(config), config;
\* from Build, the builder's configuration; and each returns what the
\* constructor returned for it.
C16_ConfigPassing ==
    (IsLookup /\ Invoked)
        => /\ Len(out.invoked) = 1
           /\ out.invoked[1].ctor = providers[op.provider]
           /\ (op.name = "Create")
                => Passed = [Provider |-> op.provider,
                             BaseURL  |-> <<Host>>,
                             Model    |-> "qwen2.5:7b",
                             Timeout  |-> 30,
                             Options  |-> "defaultOptions"]
           /\ (op.name = "CreateWithConfig") => Passed = op.config
           /\ (op.name = "Build") => Passed = builder.config
           /\ \E h \in HealthOutcomes, resp \in ProbeResponses :
                  LET r == ProviderFunc(out.invoked[1].ctor, Passed, h, resp)
                  IN  /\ out.calls = r.calls
                      /\ out.val = r.val
                      /\ out.err = r.err
\* Build on a builder made for a registered provider of the caller's
C16_Witness ==
    /\ op.name = "Build"
    /\ Invoked
    /\ builder.config.Provider = "mock"
    /\ out.invoked[1].ctor = "c1"
    /\ out.val.dyn = "*MockEmbedder"

\* C17: WithBaseURL, WithModel and WithOption change the one field or the one
\* option key they are given, to the value given, leave the rest of the
\* builder's configuration as it was and return the builder; Build passes the
\* configuration so set.
C17_SetterFrame ==
    [][/\ (op'.name = "WithBaseURL")
            => /\ builder' = [builder EXCEPT !.config.BaseURL = op'.arg]
               /\ heap' = heap
               /\ out'.val = builder'
       /\ (op'.name = "WithModel")
            => /\ builder' = [builder EXCEPT !.config.Model = op'.arg]
               /\ heap' = heap
               /\ out'.val = builder'
       /\ (op'.name = "WithOption")
            => LET a == builder'.config.Options IN
               /\ builder' = [builder EXCEPT !.config.Options = a]
               /\ builder.config.Options # "nil" => a = builder.config.Options
               /\ DOMAIN heap'[a] = DOMAIN heap[a] \cup {op'.key}
               /\ heap'[a][op'.key] = op'.arg
               /\ \A k \in DOMAIN heap[a] \ {op'.key} : heap'[a][k] = heap[a][k]
               /\ \A x \in OptionMaps \ {a} : heap'[x] = heap[x]
               /\ out'.val = builder'
       /\ (op'.name = "Build")
            => /\ builder' = builder
               /\ heap' = heap
               /\ out'.invoked # <<>> => out'.invoked[1].config = builder.config]_vars
\* a key the file gave was set again, beside another key set before
C17_Witness ==
    /\ op.name = "WithOption"
    /\ op.key = "k1"
    /\ builder.config.Options = "fileOptions"
    /\ builder.config.Model = "test-model"
    /\ heap["fileOptions"] = [k \in {"k1", "k2"} |-> "v1"]


\* ------------------------------------------------ properties of BatchEmbed
\* the j-th chunk (from 1) of items cut into chunks of b, and how many there are
ChunkOf(items, b, j) ==
    [i \in 1..(IF j * b <= Len(items) THEN b ELSE Len(items) - (j - 1) * b)
        |-> items[(j - 1) * b + i]]
NumChunks(items, b) == (Len(items) + b - 1) \div b
\* the chunks Embed is called with: all of them, or those up to the first that fails
ChunksCalled(items, b) ==
    IF AllOk(items) THEN NumChunks(items, b)
    ELSE ((FirstFailure(items) - 1) \div b) + 1

\* C19: for batchSize > 0, BatchEmbed calls Embed on the consecutive chunks of
\* batchSize items (the last may be shorter) in order; when the Embed of a
\* chunk fails, BatchEmbed returns that error and no results, and no chunk and
\* no item after the failing one is sent.
C19_ChunkOrder ==
    (op.name = "BatchEmbed" /\ op.batchSize > 0)
        => LET b == op.batchSize
               n == ChunksCalled(op.items, b)
           IN  /\ out.status = "returned"
               /\ Len(out.chunks) = n
               /\ \A j \in 1..n :
                      /\ out.chunks[j] = ChunkOf(op.items, b, j)
                      /\ Len(out.chunks[j]) <= b
                      /\ j < NumChunks(op.items, b) => Len(out.chunks[j]) = b
               /\ Len(out.calls) = IF AllOk(op.items) THEN Len(op.items)
                                   ELSE FirstFailure(op.items)
               /\ \A i \in DOMAIN out.calls :
                      /\ out.calls[i].prompt = op.items[i].text
                      /\ out.calls[i].resp = op.items[i].resp
               /\ AllOk(op.items) => out.err = NoErr
               /\ ~AllOk(op.items)
                    => /\ out.err = Embed(emb, ChunkOf(op.items, b, n)).err
                       /\ out.err # NoErr
                       /\ out.val = NilSlice
\* three one-item chunks, the second failed, the third was not sent
C19_Witness ==
    /\ op.name = "BatchEmbed"
    /\ op.batchSize = 1
    /\ Len(op.items) = 3
    /\ op.items[1].resp.kind = "ok"
    /\ op.items[2].resp.kind # "ok"
    /\ Len(out.chunks) = 2
    /\ Len(out.calls) = 2
    /\ out.err # NoErr

\* C20: when an item fails in BatchEmbed(T, batchSize), the index the returned
\* error carries is the position in T of the first item that fails.
C20_GlobalErrorIndex ==
    (op.name = "BatchEmbed" /\ ~AllOk(op.items))
        => /\ out.err.kind = "failed to embed text at index"
           /\ out.err.index = FirstFailure(op.items) - 1


\* ------------------------------------- properties of the registry's lock
Busy(t) == threads[t].stack # <<>>
\* the goroutine is inside a constructor, not in a call the constructor makes
InCtor(t) == At(t, "call")
Holds(t) == mu.w = t \/ mu.readers[t] > 0

\* C15: a goroutine whose Create or CreateWithConfig is running the
\* constructor holds neither the read nor the write lock, and the goroutines
\* that are inside a registry call and not inside a constructor can always
\* take a step: no registry call waits for a constructor to return.
C15_NoLockInConstructor ==
    /\ \A t \in Threads : InCtor(t) => ~Holds(t)
    /\ (\E u \in Threads : Busy(u) /\ ~InCtor(u))
          => \E u \in Threads : Busy(u) /\ ~InCtor(u) /\ ENABLED GoStep(u)
\* the built-in constructor is running in one goroutine while another is
\* inside RegisterProvider with the write lock taken
C15_Witness ==
    \E t, u \in Threads :
        /\ InCtor(t)
        /\ Top(t).name = "Create"
        /\ Top(t).found = providers["ollama"]
        /\ u # t
        /\ mu.w = u
        /\ At(u, "insert")

\* the registrations of n that have returned, and those of them that succeeded
Registrations(n) ==
    {r \in AllResults : r.name = "RegisterProvider" /\ r.provider = n}
Winners(n) == {r \in Registrations(n) : r.err = NoErr}
Registering(n) ==
    \E t \in Threads : \E i \in DOMAIN threads[t].stack :
        threads[t].stack[i].name = "RegisterProvider" /\ threads[t].stack[i].provider = n

\* C18: of the RegisterProvider calls made at the same time for a name that
\* is not registered, exactly one succeeds and the others return the
\* duplicate-provider error; a Create or CreateWithConfig of the name that
\* starts after the successful call has returned finds the name and invokes
\* the constructor that call registered.
C18_ConcurrentRegistration ==
    /\ \A n \in ProviderNames \ DOMAIN NewFactory :
          /\ Cardinality(Winners(n)) <= 1
          /\ \A r \in Registrations(n) \ Winners(n) :
                 r.err = [kind |-> "already registered", name |-> n]
          /\ (Registrations(n) # {} /\ ~Registering(n)) => Cardinality(Winners(n)) = 1
    /\ \A r \in AllResults :
          (r.name \in {"Create", "CreateWithConfig"} /\ r.provider \in r.seen)
              => /\ r.err = NoErr
                 /\ \A x \in Winners(r.provider) : r.found = x.ctor
\* two registrations of "mock" overlapped; the one with c2 won, the one with
\* c1 got the error
C18_Witness ==
    /\ \E r \in AllResults :
          /\ r.name = "RegisterProvider"
          /\ r.ctor = "c1"
          /\ r.err.kind = "already registered"
          /\ "mock" \notin r.seen
    /\ \E r \in AllResults :
          /\ r.name = "RegisterProvider"
          /\ r.ctor = "c2"
          /\ r.err = NoErr
    /\ providers["mock"] = "c2"
    /\ \A t \in Threads : ~Busy(t)


\* ------------------------------------------- properties of a loaded builder
\* what a document says and the defaults say, whatever it is loaded into
FromFile(doc) ==
    [Provider |-> IF Given(doc, "provider") THEN "mock" ELSE "ollama",
     BaseURL  |-> IF Given(doc, "base_url") THEN <<Host, "/">> ELSE <<Host>>,
     Model    |-> IF Given(doc, "model") THEN "test-model" ELSE "qwen2.5:7b",
     Timeout  |-> IF Given(doc, "timeout") THEN 5 ELSE 30,
     Options  |-> IF Given(doc, "options") THEN ("k1" :> "v2") ELSE EmptyMap]

\* C21: a successful LoadConfig on a builder replaces its whole configuration:
\* whatever provider New was given and whatever WithBaseURL, WithModel and
\* WithOption stored before, every field afterwards is the file's value or,
\* where the file leaves it empty, the default, and the option map holds the
\* file's options and nothing the builder held before.
C21_LoadConfigReplaces ==
    [][(builder.type = "builder" /\ op'.name = "LoadConfig" /\ out'.err = NoErr)
        => \A b \in {builder} : \A f \in {FromFile(op'.file.doc)} :
              /\ builder'.type = "builder"
              /\ builder'.config.Provider = f.Provider
              /\ builder'.config.BaseURL = f.BaseURL
              /\ builder'.config.Model = f.Model
              /\ builder'.config.Timeout = f.Timeout
              /\ builder'.config.Options \in OptionMaps
              /\ heap'[builder'.config.Options] = f.Options
              /\ \A k \in DOMAIN heap[b.config.Options] :
                     k \in DOMAIN heap'[builder'.config.Options]
                        => k \in DOMAIN f.Options]_vars
\* an empty document was loaded into a builder made by New("mock") that had
\* been given a base URL, a model and an option: all four are gone
C21_Witness ==
    /\ op.name = "LoadConfig"
    /\ out.err = NoErr
    /\ op.file.doc = [keys |-> {}, empty |-> {}]
    /\ op.config.Provider = "mock"
    /\ op.config.BaseURL = <<Host, "/">>
    /\ op.config.Model = "test-model"
    /\ op.had = ("k2" :> "v1")
    /\ builder.config.Provider = "ollama"
    /\ builder.config.BaseURL = <<Host>>
    /\ builder.config.Model = "qwen2.5:7b"
    /\ heap[builder.config.Options] = EmptyMap


\* ------------------------------------------------ properties of cancellation
\* ctx was cancelled during the call; the single-item calls made and the
\* requests sent since
Fired == run.fired.tried >= 0
TriedAfter == run.tried - run.fired.tried
SentAfter == Len(run.calls) - run.fired.sent

\* C22 as stated: once ctx is cancelled during a BatchEmbed, no request is
\* sent any more and at most one more single-item call is attempted, and the
\* call returns an error.
C22_CancelReturnsError ==
    Fired => /\ SentAfter = 0
             /\ TriedAfter <= 1
             /\ run.pc = "done" => run.err # NoErr

\* C22, amended: once ctx is cancelled during a BatchEmbed, no request is sent
\* any more and at most one more single-item call is attempted; the call
\* returns an error when an item had not been sent yet, and when it returns no
\* error it returns the vector of every item.
C22_CancelStopsChunks ==
    Fired => /\ SentAfter = 0
             /\ TriedAfter <= 1
             /\ (run.pc = "done" /\ run.fired.sent < Len(run.items)) => run.err # NoErr
             /\ (run.pc = "done" /\ run.err = NoErr)
                    => /\ Len(run.val.elems) = Len(run.items)
                       /\ \A k \in 1..Len(run.items) :
                              run.val.elems[k] =
                                  [d \in 1..Len(run.items[k].resp.embedding) |->
                                      Float32(run.items[k].resp.embedding[d])]
\* three items in chunks of one: ctx was cancelled after the first request
\* went out; the second item was attempted and not sent, the third never
\* attempted, and the call returned the context's error
C22_Witness ==
    /\ run.pc = "done"
    /\ Fired
    /\ Len(run.items) = 3
    /\ run.batchSize = 1
    /\ run.fired.sent = 1
    /\ Len(run.calls) = 1
    /\ run.tried = 2
    /\ Len(run.chunks) = 2
    /\ run.err.kind = "failed to embed text at index"
    /\ run.err.cause = CtxErr
    /\ out.err = run.err


\* ------------------------------------------- properties of DefaultConfig
\* C23: DefaultConfig keeps provider "ollama", base URL
\* "http://localhost:11434", model "qwen2.5:7b", timeout 30s and an empty
\* option map through every call; a configuration manager NewConfig has just
\* returned holds no option, and the configuration Create passes to the
\* constructor holds none.
C23_DefaultConfigUnchanged ==
    /\ DefaultConfig.Provider = "ollama"
    /\ DefaultConfig.BaseURL = <<Host>>
    /\ DefaultConfig.Model = "qwen2.5:7b"
    /\ DefaultConfig.Timeout = 30
    /\ heap[DefaultConfig.Options] = EmptyMap
    /\ op.name = "NewConfig" => heap[builder.config.Options] = EmptyMap
    /\ (op.name = "Create" /\ Invoked) => heap[Passed.Options] = EmptyMap

=============================================================================





